---- MODULE Spec2Model ----
(***************************************************************************)
(* A model of ai-web-agent: the codebase analyzer (analyzer.js), the       *)
(* prompt generator (promptGenerator.js) and the agent entry points        *)
(* (index.js).                                                             *)
(*                                                                         *)
(* Text is modelled without characters:                                    *)
(*   - a file or directory NAME is the sequence of its dot-separated parts *)
(*     ("App.test.tsx" is <<"App","test","tsx">>, ".env" is <<"","env">>); *)
(*   - a PATH is the sequence of its slash-separated names;                *)
(*   - a JavaScript value that may be a boolean, a string or undefined is  *)
(*     a record [t, b, s] (see JBool, JStr, JUndef).                       *)
(***************************************************************************)
EXTENDS Integers, Sequences, FiniteSets, TLC

VARIABLES fs, manifest, templates, last

vars == <<fs, manifest, templates, last>>

-----------------------------------------------------------------------------
(* Bounds of the model *)

\* files placed in the flat project of the file-name family
MaxFlat == 2
\* entries of dependencies and devDependencies together, manifest family
MaxDeps == 2

-----------------------------------------------------------------------------
(* Generic helpers *)

Range(s) == {s[i] : i \in 1..Len(s)}

Some(x) == <<x>>

None == <<>>

\* the subsets of S with at most k elements
RECURSIVE SubsetsUpTo(_, _)
SubsetsUpTo(S, k) ==
  IF k = 0 THEN {{}}
  ELSE LET prev == SubsetsUpTo(S, k - 1)
       IN prev \cup {T \cup {x} : T \in prev, x \in S}

-----------------------------------------------------------------------------
(* JavaScript values: boolean | string | undefined, and the || operator *)

JBool(b) == [t |-> "boolean", b |-> b, s |-> ""]

JStr(s) == [t |-> "string", b |-> FALSE, s |-> s]

JUndef == [t |-> "undefined", b |-> FALSE, s |-> ""]

Truthy(v) == \/ v.t = "boolean" /\ v.b
             \/ v.t = "string" /\ v.s # ""

\* a || b evaluates to a when a is truthy and to b otherwise
JOr(a, b) == IF Truthy(a) THEN a ELSE b

-----------------------------------------------------------------------------
(* Names and paths *)

N1(a) == <<a>>

N2(a, b) == <<a, b>>

N3(a, b, c) == <<a, b, c>>

\* String.prototype.toLowerCase on one part of a name; every part of the
\* model's universe that holds an upper-case letter is listed.
ToLower(s) ==
  CASE s = "App" -> "app"
    [] s = "Button" -> "button"
    [] s = "README" -> "readme"
    [] s = "JS" -> "js"
    [] s = "TSX" -> "tsx"
    [] s = "Pages" -> "pages"
    [] s = "Home" -> "home"
    [] s = "Makefile" -> "makefile"
    [] OTHER -> s

LowerName(n) == [i \in 1..Len(n) |-> ToLower(n[i])]

\* the segment "." of a path
DotName == <<"", "">>

\* path.join(folder, item): the segments of both, "." segments dropped
\* (path.normalize); "." when nothing is left
PathJoin(folder, item) ==
  LET all == folder \o <<item>>
      kept == SelectSeq(all, LAMBDA n : n # DotName)
  IN IF kept = <<>> THEN <<DotName>> ELSE kept

\* path.basename(file)
BaseName(file) == file[Len(file)]

\* path.extname(file): <<>> for '', <<x>> for '.x'
ExtName(file) ==
  LET n == BaseName(file) IN
  IF Len(n) = 1 THEN <<>>
  ELSE IF Len(n) = 2 /\ n[1] = "" THEN <<>>
  ELSE <<n[Len(n)]>>

\* path.extname(file).toLowerCase()
ExtLower(file) == LowerName(ExtName(file))

\* fileName.includes('.' + marker + '.')
IncludesMarker(fileName, marker) ==
  \E i \in 2..(Len(fileName) - 1) : fileName[i] = marker

\* f.endsWith('.tsx')
EndsWithTsx(file) ==
  LET n == BaseName(file) IN Len(n) >= 2 /\ n[Len(n)] = "tsx"

-----------------------------------------------------------------------------
(* The file system *)

\* The names of the model's universe, in the order readdirSync lists them.
AllNames == <<
  N1("node_modules"), N1("dist"), N1("build"), N2("", "git"),
  N2("package", "json"), N2("package-lock", "json"), N2("tsconfig", "json"),
  N3("webpack", "config", "js"), N2("", "env"),
  N1("src"), N1("public"), N1("lib"), N1("pages"), N1("api"),
  N2("App", "tsx"), N2("App", "TSX"), N2("Button", "jsx"), N2("index", "css"),
  N2("index", "js"), N2("main", "ts"), N2("out", "js"), N2("util", "js"),
  N3("util", "test", "js"), N3("util", "spec", "ts"), N3("App", "test", "tsx"),
  N3("api", "test", "py"), N3("notes", "spec", "md"), N3("a", "test", ""),
  N2("test", "js"), N2("lib", "JS"),
  N2("Home", "vue"), N2("theme", "scss"), N2("index", "html"),
  N2("logo", "svg"), N2("README", "md"), N2("notes", "txt"),
  N1("Makefile"), N2("data", "yaml"), N2("page", "tsx"), N2("router", "js") >>

RootName == N1("proj")

\* the project root the analysis is run on
Root == <<RootName>>

\* a path that does not exist
MissingRoot == <<N1("nowhere")>>

PackageJson == N2("package", "json")

ManifestPath == PathJoin(Root, PackageJson)

Node(kind, st) == [kind |-> kind, st |-> st]

\* fs.readdirSync(folder): throws when folder is missing, is not a
\* directory or cannot be read; lists the entries otherwise
ReadDir(f, folder) ==
  IF folder \notin DOMAIN f \/ f[folder].kind # "dir" \/ f[folder].st # "ok"
  THEN [threw |-> TRUE, items |-> <<>>]
  ELSE [threw |-> FALSE,
        items |-> SelectSeq(AllNames,
                            LAMBDA n : PathJoin(folder, n) \in DOMAIN f)]

\* fs.statSync(p): throws when p is gone or cannot be stat'ed
Stat(f, p) ==
  IF p \notin DOMAIN f \/ f[p].st = "nostat"
  THEN [threw |-> TRUE, isDirectory |-> FALSE]
  ELSE [threw |-> FALSE, isDirectory |-> f[p].kind = "dir"]

\* fs.existsSync(p)
ExistsSync(f, p) == p \in DOMAIN f /\ f[p].st # "nostat"

-----------------------------------------------------------------------------
(* CodebaseAnalyzer: the walker *)

ignoreList == << N1("node_modules"), N2("", "git"), N1("dist"), N1("build"),
                 N2("", "next"), N2("", "nuxt") >>

IgnoresOnlyModules(item) == item = N1("node_modules")

\* this.ignoreList.includes(item)
IsIgnored(item) == item \in Range(ignoreList)

RECURSIVE FindAllFiles(_, _)
RECURSIVE WalkItems(_, _, _, _, _)

\* the for loop of findAllFiles from item i on; an exception of statSync
\* leaves the loop for the catch block, which keeps what was collected
WalkItems(f, folderPath, items, i, allFiles) ==
  IF i > Len(items) THEN allFiles
  ELSE LET item == items[i]
           fullPath == PathJoin(folderPath, item)
       IN IF IsIgnored(item)
          THEN WalkItems(f, folderPath, items, i + 1, allFiles)
          ELSE IF Stat(f, fullPath).threw
          THEN allFiles
          ELSE IF Stat(f, fullPath).isDirectory
          THEN WalkItems(f, folderPath, items, i + 1,
                         allFiles \o FindAllFiles(f, fullPath))
          ELSE WalkItems(f, folderPath, items, i + 1,
                         Append(allFiles, fullPath))

FindAllFiles(f, folderPath) ==
  LET r == ReadDir(f, folderPath) IN
  IF r.threw THEN <<>> ELSE WalkItems(f, folderPath, r.items, 1, <<>>)

-----------------------------------------------------------------------------
(* CodebaseAnalyzer: the classifier *)

EmptyCategories ==
  [javascript |-> <<>>, typescript |-> <<>>, react |-> <<>>, vue |-> <<>>,
   angular |-> <<>>, styles |-> <<>>, html |-> <<>>, images |-> <<>>,
   config |-> <<>>, documentation |-> <<>>, tests |-> <<>>, other |-> <<>>]

\* Object.keys(categories), in insertion order
CategoryNames == << "javascript", "typescript", "react", "vue", "angular",
                    "styles", "html", "images", "config", "documentation",
                    "tests", "other" >>

Push(rec, key, x) == [rec EXCEPT ![key] = Append(@, x)]

HasTestMarker(fileName) ==
  IncludesMarker(fileName, "test") \/ IncludesMarker(fileName, "spec")

CategoryConfigNames == { N2("package", "json"), N2("package-lock", "json"),
                         N2("", "env"), N2("tsconfig", "json"),
                         N3("webpack", "config", "js") }

\* the if / else-if chain of the forEach callback in categorizeFiles: the
\* bucket of the first rule that matches
CategoryOf(file) ==
  LET fileName == BaseName(file)
      extension == ExtLower(file)
  IN IF extension = <<"js">> /\ ~IncludesMarker(fileName, "test")
                             /\ ~IncludesMarker(fileName, "spec")
     THEN "javascript"
     ELSE IF extension = <<"ts">> /\ ~IncludesMarker(fileName, "test")
                                  /\ ~IncludesMarker(fileName, "spec")
     THEN "typescript"
     ELSE IF extension = <<"jsx">> \/ extension = <<"tsx">>
     THEN "react"
     ELSE IF extension = <<"vue">>
     THEN "vue"
     ELSE IF extension \in {<<"css">>, <<"scss">>, <<"sass">>, <<"less">>}
     THEN "styles"
     ELSE IF extension = <<"html">>
     THEN "html"
     ELSE IF extension \in {<<"png">>, <<"jpg">>, <<"jpeg">>, <<"gif">>,
                            <<"svg">>, <<"webp">>}
     THEN "images"
     ELSE IF fileName \in CategoryConfigNames
     THEN "config"
     ELSE IF extension \in {<<"md">>, <<"txt">>, <<"rst">>}
     THEN "documentation"
     ELSE IF \/ IncludesMarker(fileName, "test")
             \/ IncludesMarker(fileName, "spec")
             \/ extension = <<"test", "js">>
             \/ extension = <<"spec", "js">>
     THEN "tests"
     ELSE "other"

\* a callback in which the test rule is an if of its own after the chain, so
\* that a marked file lands in its extension's bucket and in tests
CategorizeOneTestsTwice(categories, file) ==
  LET c == Push(categories, CategoryOf(file), file)
  IN IF HasTestMarker(BaseName(file)) /\ CategoryOf(file) # "tests"
     THEN Push(c, "tests", file)
     ELSE c

\* the callback of files.forEach in categorizeFiles: the file is pushed to
\* the one bucket the chain selects
CategorizeOne(categories, file) == Push(categories, CategoryOf(file), file)

RECURSIVE CategorizeFrom(_, _, _)
CategorizeFrom(categories, files, i) ==
  IF i > Len(files) THEN categories
  ELSE CategorizeFrom(CategorizeOne(categories, files[i]), files, i + 1)

CategorizeFiles(files) == CategorizeFrom(EmptyCategories, files, 1)

-----------------------------------------------------------------------------
(* CodebaseAnalyzer: the importance roles *)

EmptyImportant ==
  [entryPoints |-> <<>>, components |-> <<>>, pages |-> <<>>, api |-> <<>>,
   config |-> <<>>, styles |-> <<>>]

\* Object.keys(important), in insertion order
ImportantNames == << "entryPoints", "components", "pages", "api", "config",
                     "styles" >>

\* the parts of the universe that begin with a letter of A-Z
StartsUpper(part) ==
  part \in {"App", "Button", "README", "Home", "Makefile", "JS", "TSX", "Pages"}

\* part.includes(needle), for the needles the code looks for
PartIncludes(part, needle) ==
  CASE needle = "route" -> part \in {"route", "routes", "router"}
    [] needle = "api" -> part \in {"api"}
    [] needle = "pages" -> part \in {"pages"}
    [] needle = "components" -> part \in {"components"}
    [] OTHER -> FALSE

NameIncludes(name, needle) ==
  \E i \in 1..Len(name) : PartIncludes(name[i], needle)

\* filePath.includes('/' + dir + '/') on the lower-cased path: a segment
\* with a slash before it and a slash after it
PathIncludesDir(file, dir) ==
  \E i \in 2..(Len(file) - 1) : LowerName(file[i]) = N1(dir)

EntryPointNames == { N2("index", "html"), N2("index", "js"), N2("index", "ts"),
                     N2("App", "js"), N2("App", "tsx"), N2("main", "js"),
                     N2("main", "ts") }

ImportantConfigNames == { N2("package", "json"), N2("", "env"),
                          N2("tsconfig", "json"), N3("next", "config", "js"),
                          N3("vite", "config", "js") }

MainStyleNames == { N2("index", "css"), N2("App", "css"), N2("globals", "css") }

PageExts == {"js", "ts", "jsx", "tsx"}

PushIf(cond, rec, key, x) == IF cond THEN Push(rec, key, x) ELSE rec

\* the callback of files.forEach in identifyImportantFiles: six independent ifs
ImportantOne(important, file) ==
  LET fileName == BaseName(file)
      r1 == PushIf(fileName \in EntryPointNames, important, "entryPoints", file)
      r2 == PushIf(/\ Len(fileName) >= 2
                   /\ StartsUpper(fileName[1])
                   /\ fileName[Len(fileName)] \in {"jsx", "tsx"},
                   r1, "components", file)
      r3 == PushIf(\/ PathIncludesDir(file, "pages")
                   \/ PathIncludesDir(file, "views")
                   \/ (/\ Len(fileName) = 2 /\ fileName[1] = "page"
                       /\ fileName[2] \in PageExts),
                   r2, "pages", file)
      r4 == PushIf(\/ PathIncludesDir(file, "api")
                   \/ PathIncludesDir(file, "routes")
                   \/ NameIncludes(fileName, "route"),
                   r3, "api", file)
      r5 == PushIf(fileName \in ImportantConfigNames, r4, "config", file)
      r6 == PushIf(fileName \in MainStyleNames, r5, "styles", file)
  IN r6

RECURSIVE ImportantFrom(_, _, _)
ImportantFrom(important, files, i) ==
  IF i > Len(files) THEN important
  ELSE ImportantFrom(ImportantOne(important, files[i]), files, i + 1)

IdentifyImportantFiles(files) == ImportantFrom(EmptyImportant, files, 1)

-----------------------------------------------------------------------------
(* CodebaseAnalyzer: the manifest *)

\* A manifest is [kind, dependencies, devDependencies, scripts, type]:
\*   kind "missing"    no package.json in the project root
\*        "unreadable" readFileSync throws
\*        "invalid"    JSON.parse throws
\*        "null"       the JSON text null
\*        "scalar"     a JSON number, string, boolean or array
\*        "object"     a JSON object; each of the four fields is None when
\*                     the key is absent and Some(value) otherwise
\* A mapping is the sequence of its [name, version] entries in key order.
Manifest(kind, deps, devDeps, scripts, type) ==
  [kind |-> kind, dependencies |-> deps, devDependencies |-> devDeps,
   scripts |-> scripts, type |-> type]

BareManifest(kind) == Manifest(kind, None, None, None, None)

Entry(name, version) == [name |-> name, version |-> version]

Keys(map) == [i \in 1..Len(map) |-> map[i].name]

HasKey(map, name) == \E i \in 1..Len(map) : map[i].name = name

\* map[name]: the version string, or undefined
Lookup(map, name) ==
  IF HasKey(map, name)
  THEN JStr((CHOOSE e \in Range(map) : e.name = name).version)
  ELSE JUndef

\* { ...a, ...b }: the keys of a in order, with b's value where b has the
\* key, then the keys only b has
Spread(a, b) ==
  [i \in 1..Len(a) |->
     IF HasKey(b, a[i].name)
     THEN Entry(a[i].name, Lookup(b, a[i].name).s)
     ELSE a[i]]
  \o SelectSeq(b, LAMBDA e : ~HasKey(a, e.name))

DefaultDependencies ==
  [dependencies |-> <<>>, devDependencies |-> <<>>, scripts |-> <<>>,
   type |-> "commonjs"]

\* fs.readFileSync(p, 'utf8') of the manifest
ReadFileSync(f, m, p) ==
  IF /\ p = ManifestPath
     /\ p \in DOMAIN f
     /\ f[p].kind = "file"
     /\ f[p].st = "ok"
     /\ m.kind \notin {"missing", "unreadable"}
  THEN [threw |-> FALSE, text |-> m]
  ELSE [threw |-> TRUE, text |-> BareManifest("missing")]

\* JSON.parse(text)
JsonParse(text) ==
  IF text.kind = "invalid"
  THEN [threw |-> TRUE, json |-> text]
  ELSE [threw |-> FALSE, json |-> text]

\* x || fallback for an optional mapping: an absent key is undefined
OrElse(opt, fallback) == IF opt = None THEN fallback ELSE opt[1]

\* packageJson.type || 'commonjs'
TypeOrDefault(opt) ==
  IF opt = None \/ opt = Some("") THEN "commonjs" ELSE opt[1]

\* the try block of analyzeDependencies; reading a property of null throws
DependenciesTry(f, m, projectPath) ==
  LET r == ReadFileSync(f, m, PathJoin(projectPath, PackageJson))
      j == JsonParse(r.text)
  IN IF r.threw \/ j.threw \/ j.json.kind = "null"
     THEN [threw |-> TRUE, value |-> DefaultDependencies]
     ELSE IF j.json.kind = "scalar"
     THEN [threw |-> FALSE, value |-> DefaultDependencies]
     ELSE [threw |-> FALSE,
           value |-> [dependencies |-> OrElse(j.json.dependencies, <<>>),
                      devDependencies |-> OrElse(j.json.devDependencies, <<>>),
                      scripts |-> OrElse(j.json.scripts, <<>>),
                      type |-> TypeOrDefault(j.json.type)]]

\* analyzeDependencies without its catch block
AnalyzeDependenciesNoCatch(f, m, projectPath) == DependenciesTry(f, m, projectPath)

\* analyzeDependencies: the try block, and the default record from the catch
AnalyzeDependencies(f, m, projectPath) ==
  LET t == DependenciesTry(f, m, projectPath)
  IN IF t.threw THEN [threw |-> FALSE, value |-> DefaultDependencies] ELSE t

-----------------------------------------------------------------------------
(* CodebaseAnalyzer: the technology detector *)

\* if (dependencies[name]): the truthiness of the version value
Has(deps, name) == Truthy(Lookup(deps, name))

DetectFramework(deps) ==
  IF Has(deps, "next") THEN "Next.js"
  ELSE IF Has(deps, "nuxt") THEN "Nuxt.js"
  ELSE IF Has(deps, "vue") THEN "Vue.js"
  ELSE IF Has(deps, "@angular/core") THEN "Angular"
  ELSE IF Has(deps, "react") THEN "React"
  ELSE IF Has(deps, "express") THEN "Express.js"
  ELSE "Vanilla JavaScript"

DetectLanguage(fileTypes) ==
  IF Len(fileTypes.typescript) > 0 THEN "TypeScript"
  ELSE IF Len(fileTypes.javascript) > 0 THEN "JavaScript"
  ELSE "Unknown"

DetectStyling(fileTypes, deps) ==
  IF Has(deps, "tailwindcss") THEN "Tailwind CSS"
  ELSE IF Has(deps, "styled-components") THEN "Styled Components"
  ELSE IF Has(deps, "@emotion/react") THEN "Emotion"
  ELSE IF Len(fileTypes.styles) > 0 THEN "CSS/SCSS"
  ELSE "Unknown"

DetectBundler(deps) ==
  IF Has(deps, "vite") THEN "Vite"
  ELSE IF Has(deps, "webpack") THEN "Webpack"
  ELSE IF Has(deps, "parcel") THEN "Parcel"
  ELSE "Unknown"

DetectTesting(deps) ==
  IF Has(deps, "jest") THEN "Jest"
  ELSE IF Has(deps, "vitest") THEN "Vitest"
  ELSE IF Has(deps, "cypress") THEN "Cypress"
  ELSE IF Has(deps, "@testing-library/react") THEN "Testing Library"
  ELSE "None detected"

\* detectTechnology; the flags are the values of the JavaScript expressions
DetectTechnology(fileTypes, dependencies) ==
  LET deps == Spread(dependencies.dependencies, dependencies.devDependencies)
  IN [framework |-> DetectFramework(deps),
      language |-> DetectLanguage(fileTypes),
      styling |-> DetectStyling(fileTypes, deps),
      bundler |-> DetectBundler(deps),
      testing |-> DetectTesting(deps),
      hasTypeScript |->
        JBool(\/ Len(fileTypes.typescript) > 0
              \/ \E i \in 1..Len(fileTypes.react) : EndsWithTsx(fileTypes.react[i])),
      hasReact |-> JOr(JBool(Len(fileTypes.react) > 0), Lookup(deps, "react")),
      hasVue |-> JOr(JBool(Len(fileTypes.vue) > 0), Lookup(deps, "vue")),
      hasAngular |-> Lookup(deps, "@angular/core")]

-----------------------------------------------------------------------------
(* CodebaseAnalyzer: the structure summary *)

\* path.relative(projectPath, file) for a file below projectPath
Relative(projectPath, file) ==
  LET root == SelectSeq(projectPath, LAMBDA n : n # DotName)
  IN SubSeq(file, Len(root) + 1, Len(file))

\* path.dirname(relativePath); <<>> stands for '.'
DirName(relativePath) == SubSeq(relativePath, 1, Len(relativePath) - 1)

\* dir.includes(needle) for a needle without '/' and '.'
DirIncludes(dir, needle) ==
  \E i \in 1..Len(dir) : NameIncludes(dir[i], needle)

\* analyzeStructure; directories is the set whose sorted listing the code
\* returns
AnalyzeStructure(files, projectPath) ==
  LET directories == {DirName(Relative(projectPath, files[i])) : i \in 1..Len(files)}
                       \ {<<>>}
  IN [directories |-> directories,
      hasSrcFolder |-> <<N1("src")>> \in directories,
      hasPublicFolder |-> <<N1("public")>> \in directories,
      hasComponentsFolder |-> \E d \in directories : DirIncludes(d, "components"),
      hasPagesFolder |-> \E d \in directories : DirIncludes(d, "pages"),
      hasApiFolder |-> \E d \in directories : DirIncludes(d, "api")]

-----------------------------------------------------------------------------
(* CodebaseAnalyzer.analyzeCodebase *)

AnalyzeCodebase(f, m, projectPath) ==
  LET allFiles == FindAllFiles(f, projectPath)
      fileTypes == CategorizeFiles(allFiles)
      importantFiles == IdentifyImportantFiles(allFiles)
      dependencies == AnalyzeDependencies(f, m, projectPath)
  IN IF dependencies.threw
     THEN [threw |-> TRUE, value |-> None]
     ELSE [threw |-> FALSE,
           value |-> Some(
             [projectName |-> BaseName(projectPath),
              totalFiles |-> Len(allFiles),
              fileTypes |-> fileTypes,
              importantFiles |-> importantFiles,
              dependencies |-> dependencies.value,
              technology |-> DetectTechnology(fileTypes, dependencies.value),
              structure |-> AnalyzeStructure(allFiles, projectPath)])]

-----------------------------------------------------------------------------
(* PromptGenerator: text *)

\* A text is a sequence of tokens. A token is a piece of literal text, a
\* whole {{...}} placeholder, or the name of a file (its dot-separated parts).
Lit(s) == [text |-> s, name |-> <<>>]

NameTok(n) == [text |-> "", name |-> n]

\* String(n) for the numbers a rendering writes
NumStr(n) ==
  IF n < 10
  THEN <<"0", "1", "2", "3", "4", "5", "6", "7", "8", "9">>[n + 1]
  ELSE "10+"

\* the concatenation of the texts seqs[lo], ..., seqs[hi]
RECURSIVE Concat(_, _, _)
Concat(seqs, lo, hi) ==
  IF lo > hi THEN <<>>
  ELSE IF lo = hi THEN seqs[lo]
  ELSE LET mid == (lo + hi) \div 2
       IN Concat(seqs, lo, mid) \o Concat(seqs, mid + 1, hi)

\* the replacement patterns of String.prototype.replace in a replacement
\* string: $$ is $, $& the match, $` the text before it, $' the text after
ExpandValue(value, str, i) ==
  LET one(tok) ==
        IF tok = Lit("$$") THEN <<Lit("$")>>
        ELSE IF tok = Lit("$&") THEN <<str[i]>>
        ELSE IF tok = Lit("$`") THEN SubSeq(str, 1, i - 1)
        ELSE IF tok = Lit("$'") THEN SubSeq(str, i + 1, Len(str))
        ELSE <<tok>>
  IN Concat([k \in 1..Len(value) |-> one(value[k])], 1, Len(value))

\* str.replace(/placeholder/g, value): every occurrence of the placeholder
\* in str is replaced; what is inserted is not scanned again by this call
ReplaceAll(str, placeholder, value) ==
  Concat([i \in 1..Len(str) |->
            IF str[i] = Lit(placeholder)
            THEN ExpandValue(value, str, i)
            ELSE <<str[i]>>],
         1, Len(str))

\* array.join(', ')
RECURSIVE Join(_)
Join(toks) ==
  IF Len(toks) = 0 THEN <<>>
  ELSE IF Len(toks) = 1 THEN <<toks[1]>>
  ELSE <<toks[1], Lit(", ")>> \o Join(Tail(toks))

\* the text s, or the fallback when s is the empty string
TextOr(s, fallback) == IF s = <<>> THEN <<Lit(fallback)>> ELSE s

YesNo(b) == IF b THEN <<Lit("Yes")>> ELSE <<Lit("No")>>

-----------------------------------------------------------------------------
(* PromptGenerator: the templates *)

UserRequestPlaceholder == "{{userQuestion || '[Please specify what you need help with]'}}"

DepsPlaceholder == "{{Object.keys(dependencies.dependencies).slice(0, 10).join(', ') || 'None'}}"

DevDepsPlaceholder == "{{Object.keys(dependencies.devDependencies).slice(0, 10).join(', ') || 'None'}}"

\* the part the built-in template and templates/default.md share
TemplateBody == <<
  Lit("# AI CODEBASE ANALYSIS"),
  Lit("## PROJECT OVERVIEW"),
  Lit("- **Project Name**: "), Lit("{{projectName}}"),
  Lit("- **Total Files**: "), Lit("{{totalFiles}}"),
  Lit("- **Main Framework**: "), Lit("{{technology.framework}}"),
  Lit("- **Language**: "), Lit("{{technology.language}}"),
  Lit("- **Styling**: "), Lit("{{technology.styling}}"),
  Lit("- **Bundler**: "), Lit("{{technology.bundler}}"),
  Lit("- **Testing**: "), Lit("{{technology.testing}}"),
  Lit("## TECHNOLOGY STACK"),
  Lit("- **TypeScript**: "), Lit("{{technology.hasTypeScript ? 'Yes' : 'No'}}"),
  Lit("- **React**: "), Lit("{{technology.hasReact ? 'Yes' : 'No'}}"),
  Lit("- **Vue**: "), Lit("{{technology.hasVue ? 'Yes' : 'No'}}"),
  Lit("- **Angular**: "), Lit("{{technology.hasAngular ? 'Yes' : 'No'}}"),
  Lit("## PROJECT STRUCTURE"),
  Lit("- **Has src/ folder**: "), Lit("{{structure.hasSrcFolder ? 'Yes' : 'No'}}"),
  Lit("- **Has public/ folder**: "), Lit("{{structure.hasPublicFolder ? 'Yes' : 'No'}}"),
  Lit("- **Has components/ folder**: "), Lit("{{structure.hasComponentsFolder ? 'Yes' : 'No'}}"),
  Lit("- **Has pages/ folder**: "), Lit("{{structure.hasPagesFolder ? 'Yes' : 'No'}}"),
  Lit("- **Has api/ folder**: "), Lit("{{structure.hasApiFolder ? 'Yes' : 'No'}}"),
  Lit("## FILE BREAKDOWN"),
  Lit("- **JavaScript Files**: "), Lit("{{fileTypes.javascript.length}}"),
  Lit("- **TypeScript Files**: "), Lit("{{fileTypes.typescript.length}}"),
  Lit("- **React Components**: "), Lit("{{fileTypes.react.length}}"),
  Lit("- **Vue Components**: "), Lit("{{fileTypes.vue.length}}"),
  Lit("- **Style Files**: "), Lit("{{fileTypes.styles.length}}"),
  Lit("- **HTML Files**: "), Lit("{{fileTypes.html.length}}"),
  Lit("- **Images**: "), Lit("{{fileTypes.images.length}}"),
  Lit("- **Config Files**: "), Lit("{{fileTypes.config.length}}"),
  Lit("- **Documentation**: "), Lit("{{fileTypes.documentation.length}}"),
  Lit("- **Tests**: "), Lit("{{fileTypes.tests.length}}"),
  Lit("## IMPORTANT FILES"),
  Lit("**Entry Points**: "), Lit("{{importantFiles.entryPoints.join(', ') || 'None found'}}"),
  Lit("**Components**: "), Lit("{{importantFiles.components.slice(0, 10).join(', ') || 'None found'}}"),
  Lit("**Pages**: "), Lit("{{importantFiles.pages.slice(0, 10).join(', ') || 'None found'}}"),
  Lit("**API Files**: "), Lit("{{importantFiles.api.slice(0, 10).join(', ') || 'None found'}}"),
  Lit("**Config Files**: "), Lit("{{importantFiles.config.join(', ') || 'None found'}}"),
  Lit("## DEPENDENCIES"),
  Lit("**Main Dependencies**: "), Lit(DepsPlaceholder),
  Lit("**Dev Dependencies**: "), Lit(DevDepsPlaceholder),
  Lit("## USER REQUEST"),
  Lit(UserRequestPlaceholder),
  Lit("## WHAT I NEED HELP WITH") >>

\* getDefaultTemplate()
GetDefaultTemplate == TemplateBody

\* templates/default.md: the same text, and a GUIDELINES section after it
DefaultMd == Append(TemplateBody, Lit("## GUIDELINES"))

\* a template a user adds to templates/, written with the plain placeholders
CustomMd == <<
  Lit("Project: "), Lit("{{projectName}}"),
  Lit("Files: "), Lit("{{totalFiles}}"),
  Lit("Framework: "), Lit("{{technology.framework}}"),
  Lit("React: "), Lit("{{technology.hasReact}}"),
  Lit("src: "), Lit("{{structure.hasSrcFolder}}"),
  Lit("Tests: "), Lit("{{fileTypes.tests.length}}"),
  Lit("Pages: "), Lit("{{importantFiles.pages}}"),
  Lit("Entry: "), Lit("{{importantFiles.entryPoints}}"),
  Lit("Unknown: "), Lit("{{author}}"),
  Lit("Request: "), Lit("{{userQuestion}}") >>

\* The template store this.templates is modelled by the set of its keys, the
\* names of the .md files loadTemplates() read; TemplateText gives the value.
TemplateText(id) == IF id = "default" THEN DefaultMd ELSE CustomMd

\* loadTemplates() when the templates directory cannot be read
NoTemplates == {}

\* loadTemplates() of the repository's templates directory
RepoTemplates == {"default"}

\* loadTemplates() after a user has added templates/custom.md
UserTemplates == {"default", "custom"}

\* the keys every object inherits from Object.prototype, among the
\* identifiers of the model
InheritedKeys == {"constructor"}

-----------------------------------------------------------------------------
(* PromptGenerator: rendering *)

\* the 10 of slice(0, 10)
KeysLimit == 10

FirstKeys(map) ==
  LET ks == Keys(map)
  IN [i \in 1..(IF Len(ks) < KeysLimit THEN Len(ks) ELSE KeysLimit) |-> Lit(ks[i])]

BaseNames(files) == [i \in 1..Len(files) |-> NameTok(BaseName(files[i]))]

Step(placeholder, value) == [placeholder |-> placeholder, value |-> value]

\* the placeholder the loop over Object.keys(analysis.fileTypes) builds
FileTypesPlaceholder(type) ==
  CASE type = "javascript" -> "{{fileTypes.javascript.length}}"
    [] type = "typescript" -> "{{fileTypes.typescript.length}}"
    [] type = "react" -> "{{fileTypes.react.length}}"
    [] type = "vue" -> "{{fileTypes.vue.length}}"
    [] type = "angular" -> "{{fileTypes.angular.length}}"
    [] type = "styles" -> "{{fileTypes.styles.length}}"
    [] type = "html" -> "{{fileTypes.html.length}}"
    [] type = "images" -> "{{fileTypes.images.length}}"
    [] type = "config" -> "{{fileTypes.config.length}}"
    [] type = "documentation" -> "{{fileTypes.documentation.length}}"
    [] type = "tests" -> "{{fileTypes.tests.length}}"
    [] type = "other" -> "{{fileTypes.other.length}}"

\* the placeholder the loop over Object.keys(analysis.importantFiles) builds
ImportantPlaceholder(category) ==
  CASE category = "entryPoints" -> "{{importantFiles.entryPoints}}"
    [] category = "components" -> "{{importantFiles.components}}"
    [] category = "pages" -> "{{importantFiles.pages}}"
    [] category = "api" -> "{{importantFiles.api}}"
    [] category = "config" -> "{{importantFiles.config}}"
    [] category = "styles" -> "{{importantFiles.styles}}"

\* the replace calls of populateTemplate, in the order the code makes them
RenderSteps(analysis, userQuestion) ==
  LET t == analysis.technology
      st == analysis.structure
  IN << Step("{{projectName}}", <<NameTok(analysis.projectName)>>),
        Step("{{totalFiles}}", <<Lit(NumStr(analysis.totalFiles))>>),
        Step("{{userQuestion}}", userQuestion),
        Step("{{technology.framework}}", <<Lit(t.framework)>>),
        Step("{{technology.language}}", <<Lit(t.language)>>),
        Step("{{technology.styling}}", <<Lit(t.styling)>>),
        Step("{{technology.bundler}}", <<Lit(t.bundler)>>),
        Step("{{technology.testing}}", <<Lit(t.testing)>>),
        Step("{{technology.hasTypeScript}}", YesNo(Truthy(t.hasTypeScript))),
        Step("{{technology.hasReact}}", YesNo(Truthy(t.hasReact))),
        Step("{{technology.hasVue}}", YesNo(Truthy(t.hasVue))),
        Step("{{technology.hasAngular}}", YesNo(Truthy(t.hasAngular))),
        Step("{{structure.hasSrcFolder}}", YesNo(st.hasSrcFolder)),
        Step("{{structure.hasPublicFolder}}", YesNo(st.hasPublicFolder)),
        Step("{{structure.hasComponentsFolder}}", YesNo(st.hasComponentsFolder)),
        Step("{{structure.hasPagesFolder}}", YesNo(st.hasPagesFolder)),
        Step("{{structure.hasApiFolder}}", YesNo(st.hasApiFolder)) >>
     \o [i \in 1..Len(CategoryNames) |->
           Step(FileTypesPlaceholder(CategoryNames[i]),
                <<Lit(NumStr(Len(analysis.fileTypes[CategoryNames[i]])))>>)]
     \o [i \in 1..Len(ImportantNames) |->
           Step(ImportantPlaceholder(ImportantNames[i]),
                TextOr(Join(BaseNames(analysis.importantFiles[ImportantNames[i]])),
                       "None found"))]
     \o << Step("{{Object.keys(dependencies.dependencies).slice(0, 10).join('', '') || 'None'}}",
                TextOr(Join(FirstKeys(analysis.dependencies.dependencies)), "None")),
           Step("{{Object.keys(dependencies.devDependencies).slice(0, 10).join('', '') || 'None'}}",
                TextOr(Join(FirstKeys(analysis.dependencies.devDependencies)), "None")) >>

RECURSIVE ApplySteps(_, _, _)
ApplySteps(str, steps, i) ==
  IF i > Len(steps) THEN str
  ELSE LET replaced == ReplaceAll(str, steps[i].placeholder, steps[i].value)
       IN IF Len(replaced) >= 0   \* the call returns before the next is made
          THEN ApplySteps(replaced, steps, i + 1)
          ELSE replaced

\* the placeholders of the templates that have none of the shapes
\* populateTemplate substitutes
UnmatchedPlaceholders ==
  { "{{author}}", UserRequestPlaceholder, DepsPlaceholder, DevDepsPlaceholder,
    "{{technology.hasTypeScript ? 'Yes' : 'No'}}",
    "{{technology.hasReact ? 'Yes' : 'No'}}",
    "{{technology.hasVue ? 'Yes' : 'No'}}",
    "{{technology.hasAngular ? 'Yes' : 'No'}}",
    "{{structure.hasSrcFolder ? 'Yes' : 'No'}}",
    "{{structure.hasPublicFolder ? 'Yes' : 'No'}}",
    "{{structure.hasComponentsFolder ? 'Yes' : 'No'}}",
    "{{structure.hasPagesFolder ? 'Yes' : 'No'}}",
    "{{structure.hasApiFolder ? 'Yes' : 'No'}}",
    "{{importantFiles.entryPoints.join(', ') || 'None found'}}",
    "{{importantFiles.components.slice(0, 10).join(', ') || 'None found'}}",
    "{{importantFiles.pages.slice(0, 10).join(', ') || 'None found'}}",
    "{{importantFiles.api.slice(0, 10).join(', ') || 'None found'}}",
    "{{importantFiles.config.join(', ') || 'None found'}}" }

\* populateTemplate with a last replace that blanks what is left in braces
PopulateTemplateBlankingRest(template, analysis, userQuestion) ==
  SelectSeq(ApplySteps(template, RenderSteps(analysis, userQuestion), 1),
            LAMBDA tok : tok.text \notin UnmatchedPlaceholders)

\* populateTemplate(template, analysis, userQuestion)
PopulateTemplate(template, analysis, userQuestion) ==
  ApplySteps(template, RenderSteps(analysis, userQuestion), 1)

\* this.templates[templateType] || this.getDefaultTemplate(): a loaded
\* template, or what the object inherits under that key (a function, not a
\* text), or the built-in template
SelectTemplate(store, templateType) ==
  IF templateType \in store
  THEN [isText |-> TRUE, text |-> TemplateText(templateType)]
  ELSE IF templateType \in InheritedKeys
  THEN [isText |-> FALSE, text |-> <<>>]
  ELSE [isText |-> TRUE, text |-> GetDefaultTemplate]

\* generatePrompt(analysis, userQuestion, templateType); template.replace
\* throws a TypeError when the template is not a text
GeneratePrompt(store, analysis, userQuestion, templateType) ==
  LET template == SelectTemplate(store, templateType)
  IN IF ~template.isText
     THEN [threw |-> TRUE, value |-> <<>>]
     ELSE [threw |-> FALSE,
           value |-> PopulateTemplate(template.text, analysis, userQuestion)]

\* taskSpecificInstructions[taskType] || ''
TaskInstructions(taskType) ==
  CASE taskType = "feature" -> <<Lit("## FEATURE DEVELOPMENT INSTRUCTIONS")>>
    [] taskType = "bugfix" -> <<Lit("## BUG FIXING INSTRUCTIONS")>>
    [] taskType = "optimization" -> <<Lit("## OPTIMIZATION INSTRUCTIONS")>>
    [] taskType = "refactor" -> <<Lit("## REFACTORING INSTRUCTIONS")>>
    [] taskType \in InheritedKeys -> <<Lit("function Object() { [native code] }")>>
    [] OTHER -> <<>>

\* PromptGenerator.generateSpecializedPrompt(analysis, taskType, description)
SpecializedPrompt(store, analysis, taskType, description) ==
  LET basePrompt == GeneratePrompt(store, analysis, description, "default")
  IN IF basePrompt.threw THEN basePrompt
     ELSE [threw |-> FALSE,
           value |-> basePrompt.value \o TaskInstructions(taskType)]

-----------------------------------------------------------------------------
(* The projects the analysis is run on *)

FsOf(entries) ==
  [p \in {e.path : e \in entries} |-> (CHOOSE e \in entries : e.path = p).node]

At(path, kind, st) == [path |-> path, node |-> Node(kind, st)]

Src == PathJoin(Root, N1("src"))

\* The project tree family. src, app, util are "absent" or a status; css,
\* bld, nm, distf, pkg say whether the entry is there; lib is "absent" or
\* the status of src/lib, which holds main.ts.
TreeEntries(src, app, css, bld, lib, nm, util, distf, pkg) ==
  {At(Root, "dir", "ok")}
  \cup (IF src = "absent" THEN {}
        ELSE {At(Src, "dir", src)}
             \cup (IF app = "absent" THEN {}
                   ELSE {At(PathJoin(Src, N2("App", "tsx")), "file", app)})
             \cup (IF css THEN {At(PathJoin(Src, N2("index", "css")), "file", "ok")}
                   ELSE {})
             \cup (IF bld
                   THEN {At(PathJoin(Src, N1("build")), "dir", "ok"),
                         At(PathJoin(PathJoin(Src, N1("build")), N2("out", "js")),
                            "file", "ok")}
                   ELSE {})
             \cup (IF lib = "absent" THEN {}
                   ELSE {At(PathJoin(Src, N1("lib")), "dir", lib),
                         At(PathJoin(PathJoin(Src, N1("lib")), N2("main", "ts")),
                            "file", "ok")}))
  \cup (IF nm
        THEN {At(PathJoin(Root, N1("node_modules")), "dir", "ok"),
              At(PathJoin(PathJoin(Root, N1("node_modules")), N2("index", "js")),
                 "file", "ok")}
        ELSE {})
  \cup (IF util = "absent" THEN {}
        ELSE {At(PathJoin(Root, N2("util", "js")), "file", util)})
  \cup (IF distf THEN {At(PathJoin(Root, N1("dist")), "file", "ok")} ELSE {})
  \cup (IF pkg THEN {At(ManifestPath, "file", "ok")} ELSE {})

\* package.json of a React and TypeScript project
ReactTsManifest ==
  Manifest("object",
           Some(<<Entry("react", "^18.2.0"), Entry("typescript", "^5.0.0")>>),
           None, None, None)

\* the project of src/App.tsx, src/index.css and ReactTsManifest
ReactTsFs ==
  FsOf(TreeEntries("ok", "ok", TRUE, FALSE, "absent", FALSE, "absent", FALSE, TRUE))

\* the empty project directory
EmptyFs == FsOf({At(Root, "dir", "ok")})

\* the file names put into the flat project
FlatNames == Range(AllNames) \ ({N1("src"), N1("public"), N1("lib"),
                                 N1("pages"), N1("api")}
                                \cup Range(ignoreList))

FlatFs(names) ==
  FsOf({At(Root, "dir", "ok")} \cup {At(PathJoin(Root, n), "file", "ok") : n \in names})

\* the project root written as ".", as an absolute path, and as an absolute
\* path below a directory named pages
DotRoot == <<DotName>>

AbsRoot == <<N1(""), N1("srv"), RootName>>

AbsPagesRoot == <<N1(""), N1("pages"), RootName>>

OtherRoots == {DotRoot, AbsRoot, AbsPagesRoot}

\* the root-relative files of the rooted family
RootedFiles ==
  { <<N1("pages"), N2("index", "js")>>,
    <<N1("api"), N2("util", "js")>>,
    <<N1("src"), N1("pages"), N2("Home", "vue")>>,
    <<N2("page", "tsx")>>,
    <<N2("router", "js")>>,
    <<N2("index", "js")>> }

\* the path of the root-relative path rel below root
Under(root, rel) == SelectSeq(root, LAMBDA n : n # DotName) \o rel

\* the project with the root-relative files rels, placed at root
FsAt(root, rels) ==
  FsOf({At(root, "dir", "ok")}
       \cup {At(Under(root, rel), "file", "ok") : rel \in rels}
       \cup {At(Under(root, SubSeq(rel, 1, k)), "dir", "ok") :
               <<rel, k>> \in {pr \in rels \X (1..2) : pr[2] < Len(pr[1])}})

\* the dependency names and version values of the manifest family
DepNames == << "next", "nuxt", "vue", "@angular/core", "react", "express",
               "typescript", "tailwindcss", "vite", "jest" >>

Versions == {"^1.0.0", ""}

\* the mappings with the names S, listed in the order of DepNames
MapsOn(S) ==
  LET names == SelectSeq(DepNames, LAMBDA n : n \in S)
  IN {[i \in 1..Len(names) |-> Entry(names[i], v[names[i]])] : v \in [S -> Versions]}

DepMaps == UNION {MapsOn(S) : S \in SubsetsUpTo(Range(DepNames), MaxDeps)}

ObjectManifests ==
  {Manifest("object", Some(d), IF dd = <<>> THEN None ELSE Some(dd), None, None) :
     <<d, dd>> \in {pr \in DepMaps \X DepMaps : Len(pr[1]) + Len(pr[2]) <= MaxDeps}}
  \cup {Manifest("object", None, None, sc, ty) :
          sc \in {None, Some(<<Entry("test", "jest")>>)},
          ty \in {None, Some("module"), Some("")}}

BrokenManifests ==
  {BareManifest(k) : k \in {"unreadable", "invalid", "null", "scalar"}}

-----------------------------------------------------------------------------
(* The state *)

\* fs        the file system: path -> [kind, st]
\* manifest  the content of package.json in the project root
\* templates the names of the templates the PromptGenerator loaded at
\*           construction
\* last      the last call made, its arguments and its outcome; args is the
\*           argument vector when the call was made from the command line

NoCall ==
  [op |-> "none", path |-> <<>>, question |-> <<>>, templateType |-> None,
   taskType |-> "", threw |-> FALSE, files |-> <<>>, dependencies |-> None,
   analysis |-> None, prompt |-> None, written |-> None, args |-> None]

\* the project root arguments: the project, a path that does not exist, a
\* path to a regular file
FileRoot == PathJoin(Root, N2("util", "js"))

Roots == {Root, MissingRoot, FileRoot}

InitTree ==
  \E src \in {"absent", "ok", "noread", "nostat"},
     app \in {"absent", "ok", "nostat"},
     css \in BOOLEAN, bld \in BOOLEAN,
     lib \in {"absent", "ok", "noread"},
     nm \in BOOLEAN,
     util \in {"absent", "ok", "nostat"},
     distf \in BOOLEAN, pkg \in BOOLEAN :
    /\ src = "absent" => (app = "absent" /\ ~css /\ ~bld /\ lib = "absent")
    /\ fs = FsOf(TreeEntries(src, app, css, bld, lib, nm, util, distf, pkg))
    /\ manifest = IF pkg THEN ReactTsManifest ELSE BareManifest("missing")

InitFlat ==
  \E names \in SubsetsUpTo(FlatNames, MaxFlat) :
    /\ fs = FlatFs(names)
    /\ manifest = IF PackageJson \in names THEN ReactTsManifest
                  ELSE BareManifest("missing")

InitManifest ==
  /\ fs = ReactTsFs
  /\ manifest \in ObjectManifests \cup BrokenManifests

InitRooted ==
  \E root \in {Root} \cup OtherRoots, rels \in SUBSET RootedFiles :
    /\ fs = FsAt(root, rels)
    /\ manifest = BareManifest("missing")

InitAnalyzer ==
  /\ InitTree \/ InitFlat \/ InitManifest \/ InitRooted
  /\ templates = RepoTemplates
  /\ last = NoCall

\* the projects the agent is run on
InitAgent ==
  /\ \/ fs = EmptyFs /\ manifest = BareManifest("missing")
     \/ fs = ReactTsFs /\ manifest = ReactTsManifest
     \/ /\ fs = FsOf(TreeEntries("ok", "ok", TRUE, TRUE, "ok", TRUE, "ok", FALSE, TRUE))
        /\ manifest = Manifest("object",
                               Some(<<Entry("next", "^14.0.0"), Entry("react", "^18.2.0")>>),
                               Some(<<Entry("jest", "^29.0.0")>>),
                               Some(<<Entry("test", "jest")>>), Some("module"))
     \/ /\ fs = FlatFs({N2("index", "js"), N2("util", "js"), N3("util", "test", "js")})
        /\ manifest = BareManifest("missing")
  /\ templates \in {NoTemplates, RepoTemplates, UserTemplates}
  /\ last = NoCall

-----------------------------------------------------------------------------
(* The inputs of the calls *)

\* userQuestion: none, a plain request, and a request that holds a
\* placeholder and a replacement pattern
Questions == { <<>>, <<Lit("Add a contact form")>>,
               <<Lit("Show "), Lit("{{technology.framework}}"), Lit(" and "),
                 Lit("$&")>> }

\* options.templateType: None when the option is not given
TemplateTypes == {None, Some("default"), Some("custom"), Some("feature"),
                  Some("constructor")}

TaskTypes == {"feature", "bugfix", "optimization", "refactor", "security",
              "testing", "docs", "constructor"}

-----------------------------------------------------------------------------
(* CodebaseAnalyzer called directly *)

\* A behaviour is one run of the tool: it makes one call. The analyzer and
\* the generator keep nothing between calls, so a second call would read
\* the same inputs.
Idle == last.op = "none"

CallFindAllFiles(p) ==
  /\ Idle
  /\ last' = [NoCall EXCEPT !.op = "findAllFiles", !.path = p,
                            !.files = FindAllFiles(fs, p)]
  /\ UNCHANGED <<fs, manifest, templates>>

CallAnalyzeDependencies(p) ==
  LET r == AnalyzeDependencies(fs, manifest, p)
  IN /\ Idle
     /\ last' = [NoCall EXCEPT !.op = "analyzeDependencies", !.path = p,
                               !.threw = r.threw,
                               !.dependencies = IF r.threw THEN None ELSE Some(r.value)]
     /\ UNCHANGED <<fs, manifest, templates>>

CallAnalyzeCodebase(p) ==
  LET r == AnalyzeCodebase(fs, manifest, p)
  IN /\ Idle
     /\ last' = [NoCall EXCEPT !.op = "analyzeCodebase", !.path = p,
                               !.threw = r.threw, !.analysis = r.value]
     /\ UNCHANGED <<fs, manifest, templates>>

\* the root arguments of the analyzer's calls: Roots, and the project's own
\* root when it is written in another way
AnalyzerRoots == Roots \cup (OtherRoots \cap DOMAIN fs)

NextAnalyzer ==
  \E p \in AnalyzerRoots :
    \/ CallFindAllFiles(p)
    \/ CallAnalyzeDependencies(p)
    \/ CallAnalyzeCodebase(p)

SpecAnalyzer == InitAnalyzer /\ [][NextAnalyzer]_vars

-----------------------------------------------------------------------------
(* AIWebAgent *)

\* savePrompt(prompt, outputPath): the file written, None when writing fails
\* (the error is caught and null is returned)
SavePrompt(prompt, diskOk) == IF diskOk THEN Some(prompt) ELSE None

\* what analyzeAndGeneratePrompt(projectPath, userQuestion, options) leaves
AnalyzeAndGeneratePromptResult(p, question, templateType, diskOk) ==
  LET call == [NoCall EXCEPT !.op = "analyzeAndGeneratePrompt", !.path = p,
                             !.question = question, !.templateType = templateType]
      analysis == AnalyzeCodebase(fs, manifest, p)
      prompt == GeneratePrompt(templates, analysis.value[1], question,
                               IF templateType = None THEN "default"
                               ELSE templateType[1])
  IN IF ~ExistsSync(fs, p) \/ analysis.threw
     THEN [call EXCEPT !.threw = TRUE]
     ELSE IF prompt.threw
     THEN [call EXCEPT !.threw = TRUE]
     ELSE [call EXCEPT !.analysis = analysis.value,
                       !.prompt = Some(prompt.value),
                       !.written = SavePrompt(prompt.value, diskOk)]

\* analyzeAndGeneratePrompt(projectPath, userQuestion, options)
AnalyzeAndGeneratePrompt(p, question, templateType, diskOk) ==
  /\ Idle
  /\ last' = AnalyzeAndGeneratePromptResult(p, question, templateType, diskOk)
  /\ UNCHANGED <<fs, manifest, templates>>

\* what AIWebAgent.generateSpecializedPrompt(projectPath, taskType,
\* description) leaves
GenerateSpecializedPromptResult(p, taskType, description, diskOk) ==
  LET call == [NoCall EXCEPT !.op = "generateSpecializedPrompt", !.path = p,
                             !.question = description, !.taskType = taskType]
      analysis == AnalyzeCodebase(fs, manifest, p)
      prompt == SpecializedPrompt(templates, analysis.value[1], taskType, description)
  IN IF analysis.threw \/ prompt.threw
     THEN [call EXCEPT !.threw = TRUE]
     ELSE [call EXCEPT !.analysis = analysis.value,
                       !.prompt = Some(prompt.value),
                       !.written = SavePrompt(prompt.value, diskOk)]

\* AIWebAgent.generateSpecializedPrompt(projectPath, taskType, description)
GenerateSpecializedPrompt(p, taskType, description, diskOk) ==
  /\ Idle
  /\ last' = GenerateSpecializedPromptResult(p, taskType, description, diskOk)
  /\ UNCHANGED <<fs, manifest, templates>>

\* what quickAnalysis(projectPath) leaves
QuickAnalysisResult(p) ==
  LET analysis == AnalyzeCodebase(fs, manifest, p)
  IN [NoCall EXCEPT !.op = "quickAnalysis", !.path = p,
                    !.threw = analysis.threw,
                    !.analysis = analysis.value]

\* quickAnalysis(projectPath)
QuickAnalysis(p) ==
  /\ Idle
  /\ last' = QuickAnalysisResult(p)
  /\ UNCHANGED <<fs, manifest, templates>>

-----------------------------------------------------------------------------
(* The command line *)

\* process.argv.slice(2) of the runs: the usage lines of the help text and
\* of the README, with and without a question, and options in sequence
ArgVectors ==
  { <<>>,
    <<"proj">>,
    <<"proj", "--help">>,
    <<"proj", "Add a contact form">>,
    <<"nowhere", "Add a contact form">>,
    <<"proj", "--quick">>,
    <<"proj", "Add a contact form", "--quick">>,
    <<"proj", "--specialized", "feature", "Add a contact form">>,
    <<"proj", "Add a contact form", "--specialized", "feature",
      "Add a contact form">>,
    <<"proj", "Add a contact form", "--specialized">>,
    <<"proj", "--template", "custom">>,
    <<"proj", "Add a contact form", "--template", "custom">>,
    <<"proj", "Add a contact form", "--output", "out", "--template", "custom">>,
    <<"proj", "Add a contact form", "--template", "--quick">> }

\* args[i], with '' for the undefined beyond the end: both are falsy, and
\* both become '' where the code reads them
Arg(args, i) == IF i + 1 <= Len(args) THEN args[i + 1] ELSE ""

\* the path a path argument names
PathOfArg(s) ==
  CASE s = "proj" -> Root
    [] s = "proj/util.js" -> FileRoot
    [] OTHER -> MissingRoot

\* the text of a question or description argument
TextOfArg(s) == IF s = "" THEN <<>> ELSE <<Lit(s)>>

NoOptions == [templateType |-> None, outputPath |-> None]

Dispatch(op, taskType, description, options) ==
  [op |-> op, taskType |-> taskType, description |-> description,
   options |-> options]

\* the for loop of the CLI from i on: the call it makes, or the default call
\* when it ends
RECURSIVE ParseOptions(_, _, _)
ParseOptions(args, i, options) ==
  IF i >= Len(args)
  THEN Dispatch("analyzeAndGeneratePrompt", "", "", options)
  ELSE IF Arg(args, i) = "--quick"
  THEN Dispatch("quickAnalysis", "", "", options)
  ELSE IF Arg(args, i) = "--specialized" /\ Arg(args, i + 1) # ""
  THEN Dispatch("generateSpecializedPrompt", Arg(args, i + 1), Arg(args, i + 2),
                options)
  ELSE IF Arg(args, i) = "--template" /\ Arg(args, i + 1) # ""
  THEN ParseOptions(args, i + 1,
                    [options EXCEPT !.templateType = Some(Arg(args, i + 1))])
  ELSE IF Arg(args, i) = "--output" /\ Arg(args, i + 1) # ""
  THEN ParseOptions(args, i + 1,
                    [options EXCEPT !.outputPath = Some(Arg(args, i + 1))])
  ELSE ParseOptions(args, i + 1, options)

\* args.length === 0 || args.includes('--help') || args.includes('-h')
WantsHelp(args) == Len(args) = 0 \/ "--help" \in Range(args) \/ "-h" \in Range(args)

\* what one run of the command line leaves
CliResult(args, diskOk) ==
  LET projectPath == PathOfArg(Arg(args, 0))
      question == TextOfArg(Arg(args, 1))
      d == ParseOptions(args, 2, NoOptions)
  IN IF WantsHelp(args)
     THEN [NoCall EXCEPT !.op = "help"]
     ELSE IF d.op = "quickAnalysis"
     THEN QuickAnalysisResult(projectPath)
     ELSE IF d.op = "generateSpecializedPrompt"
     THEN GenerateSpecializedPromptResult(projectPath, d.taskType,
                                          TextOfArg(d.description), diskOk)
     ELSE AnalyzeAndGeneratePromptResult(projectPath, question,
                                         d.options.templateType, diskOk)

\* node index.js args
Cli(args, diskOk) ==
  /\ Idle
  /\ last' = [CliResult(args, diskOk) EXCEPT !.args = Some(args)]
  /\ UNCHANGED <<fs, manifest, templates>>

Init == InitAgent

Next ==
  \E p \in Roots :
    \/ CallFindAllFiles(p)
    \/ CallAnalyzeDependencies(p)
    \/ CallAnalyzeCodebase(p)
    \/ QuickAnalysis(p)
    \/ \E q \in Questions, tt \in TemplateTypes, diskOk \in BOOLEAN :
         AnalyzeAndGeneratePrompt(p, q, tt, diskOk)
    \/ \E ty \in TaskTypes, d \in Questions, diskOk \in BOOLEAN :
         GenerateSpecializedPrompt(p, ty, d, diskOk)
    \/ \E args \in ArgVectors, diskOk \in BOOLEAN : Cli(args, diskOk)

Spec == Init /\ [][Next]_vars

-----------------------------------------------------------------------------
(* Properties: helpers *)

TheAnalysis == last.analysis[1]

Analyzed == last.op = "analyzeCodebase" /\ ~last.threw

\* p is a proper extension of root; the root "." is a prefix of every
\* relative path
Below(root, p) ==
  LET r == Under(root, <<>>)
  IN Len(p) > Len(r) /\ SubSeq(p, 1, Len(r)) = r /\ p # DotRoot

\* some component of p below root is a name of the ignore list
HasIgnoredComponent(root, p) ==
  \E i \in (Len(Under(root, <<>>)) + 1)..Len(p) : p[i] \in Range(ignoreList)

\* the entries that cannot be read or stat'ed
FailedEntries == {p \in DOMAIN fs : fs[p].st # "ok"}

FullyReadable == FailedEntries = {}

IsDirectory(p) == p \in DOMAIN fs /\ fs[p].kind = "dir" /\ fs[p].st = "ok"

CountIn(seq, f) == Cardinality({i \in 1..Len(seq) : seq[i] = f})

\* how many times the path f occurs in the buckets from the i-th on
RECURSIVE OccurrencesFrom(_, _, _)
OccurrencesFrom(buckets, f, i) ==
  IF i > Len(CategoryNames) THEN 0
  ELSE CountIn(buckets[CategoryNames[i]], f) + OccurrencesFrom(buckets, f, i + 1)

Occurrences(buckets, f) == OccurrencesFrom(buckets, f, 1)

RECURSIVE BucketLenFrom(_, _)
BucketLenFrom(buckets, i) ==
  IF i > Len(CategoryNames) THEN 0
  ELSE Len(buckets[CategoryNames[i]]) + BucketLenFrom(buckets, i + 1)

-----------------------------------------------------------------------------
(* Properties of the analyzer, checked under SpecAnalyzer *)

\* C1: after analyzeCodebase, every path the walker produced is in exactly
\* one category bucket, the union of the buckets is the file list, and the
\* bucket lengths sum to totalFiles.
C1_CategoriesPartitionFiles ==
  Analyzed =>
    LET files == FindAllFiles(fs, last.path)
        buckets == TheAnalysis.fileTypes
    IN /\ \A f \in Range(files) : Occurrences(buckets, f) = 1
       /\ UNION {Range(buckets[c]) : c \in Range(CategoryNames)} = Range(files)
       /\ BucketLenFrom(buckets, 1) = TheAnalysis.totalFiles
       /\ TheAnalysis.totalFiles = Len(files)

C1_Witness ==
  /\ Analyzed
  /\ last.path = Root
  /\ TheAnalysis.totalFiles >= 4
  /\ Len(TheAnalysis.fileTypes.react) > 0
  /\ Len(TheAnalysis.fileTypes.typescript) > 0
  /\ Len(TheAnalysis.fileTypes.javascript) > 0
  /\ Len(TheAnalysis.fileTypes.styles) > 0

\* C2: the analysis of the project of src/App.tsx, src/index.css and a
\* package.json declaring react and typescript has framework "React",
\* language "TypeScript", hasTypeScript true, hasReact true and
\* hasSrcFolder true.
C2_ReactTsProfile ==
  (Analyzed /\ last.path = Root /\ fs = ReactTsFs /\ manifest = ReactTsManifest) =>
    /\ TheAnalysis.technology.framework = "React"
    /\ TheAnalysis.technology.language = "TypeScript"
    /\ TheAnalysis.technology.hasTypeScript = JBool(TRUE)
    /\ TheAnalysis.technology.hasReact = JBool(TRUE)
    /\ TheAnalysis.structure.hasSrcFolder

\* the files the walk owes when entries fail: readable files below the root
\* that are not under an ignored name and not inside a failed entry
FilesOutsideFailures ==
  {p \in DOMAIN fs :
     /\ fs[p].kind = "file"
     /\ Below(Root, p)
     /\ ~HasIgnoredComponent(Root, p)
     /\ \A i \in 1..Len(p) : SubSeq(p, 1, i) \notin FailedEntries}

\* C5: when one entry cannot be read or stat'ed, findAllFiles still returns
\* every file that is neither inside that entry nor under an ignored name,
\* the entry's later siblings and their subtrees included.
C5_OnlyFailedSubtreeOmitted ==
  (last.op = "findAllFiles" /\ last.path = Root /\ Cardinality(FailedEntries) = 1) =>
    FilesOutsideFailures \subseteq Range(last.files)

\* C6: on a fully readable tree findAllFiles returns exactly the files with
\* no ignored name among their components below the root, each once.
C6_WalkReturnsNonIgnoredFiles ==
  (last.op = "findAllFiles" /\ FullyReadable) =>
    /\ Range(last.files) =
         {p \in DOMAIN fs : /\ fs[p].kind = "file"
                            /\ Below(last.path, p)
                            /\ ~HasIgnoredComponent(last.path, p)}
    /\ Cardinality(Range(last.files)) = Len(last.files)

C6_Witness ==
  /\ last.op = "findAllFiles"
  /\ last.path = Root
  /\ FullyReadable
  /\ PathJoin(PathJoin(Src, N1("build")), N2("out", "js")) \in DOMAIN fs
  /\ PathJoin(Root, N1("dist")) \in DOMAIN fs
  /\ PathJoin(PathJoin(Src, N1("lib")), N2("main", "ts")) \in Range(last.files)
  /\ PathJoin(Root, N2("util", "js")) \in Range(last.files)

\* the manifest analyzeDependencies(p) reads is missing, unreadable or not
\* a structured document
ManifestUnusable(p) ==
  \/ PathJoin(p, PackageJson) # ManifestPath
  \/ manifest.kind \in {"missing", "unreadable", "invalid", "null", "scalar"}

\* C7: analyzeDependencies never throws, and returns exactly the default
\* record when package.json is missing, unreadable or not valid structured
\* content.
C7_DependenciesNeverThrow ==
  last.op = "analyzeDependencies" =>
    /\ ~last.threw
    /\ last.dependencies # None
    /\ ManifestUnusable(last.path) => last.dependencies = Some(DefaultDependencies)

C7_Witness ==
  /\ last.op = "analyzeDependencies"
  /\ last.path = Root
  /\ manifest.kind = "invalid"
  /\ last.dependencies = Some(DefaultDependencies)

\* the mapping with every version value replaced by v
WithVersion(map, v) == [i \in 1..Len(map) |-> Entry(map[i].name, v)]

\* what C8 compares of a technology profile
Labels(t) ==
  <<t.framework, t.styling, t.bundler, t.testing,
    Truthy(t.hasReact), Truthy(t.hasVue), Truthy(t.hasAngular)>>

\* C8: detection depends on the names in dependencies and devDependencies,
\* never on the version values: the record with the same names and other
\* versions resolves the same labels and the same truth of the flags.
C8_VersionsDoNotMatter ==
  Analyzed =>
    \A v \in Versions :
      LET other == [TheAnalysis.dependencies EXCEPT
                      !.dependencies = WithVersion(@, v),
                      !.devDependencies = WithVersion(@, v)]
      IN Labels(DetectTechnology(TheAnalysis.fileTypes, other))
           = Labels(TheAnalysis.technology)

\* the order C9 states, with the label of each dependency
FrameworkOrder == << <<"next", "Next.js">>, <<"nuxt", "Nuxt.js">>,
                     <<"vue", "Vue.js">>, <<"@angular/core", "Angular">>,
                     <<"react", "React">>, <<"express", "Express.js">> >>

\* the label of the first dependency of FrameworkOrder among names
FirstPresent(names) ==
  LET present == SelectSeq(FrameworkOrder, LAMBDA e : e[1] \in names)
  IN IF present = <<>> THEN "Vanilla JavaScript" ELSE present[1][2]

\* C9: the framework is the first of next, nuxt, vue, @angular/core, react,
\* express that is present among the dependencies, and the fallback label
\* when none is.
C9_FirstPresentFrameworkWins ==
  Analyzed =>
    TheAnalysis.technology.framework =
      FirstPresent(Range(Keys(TheAnalysis.dependencies.dependencies))
                   \cup Range(Keys(TheAnalysis.dependencies.devDependencies)))

\* C10: the capability flags of every technology profile are booleans.
C10_FlagsAreBooleans ==
  Analyzed =>
    /\ TheAnalysis.technology.hasTypeScript.t = "boolean"
    /\ TheAnalysis.technology.hasReact.t = "boolean"
    /\ TheAnalysis.technology.hasVue.t = "boolean"
    /\ TheAnalysis.technology.hasAngular.t = "boolean"

-----------------------------------------------------------------------------
(* Properties of the agent, checked under Spec *)

\* C3: a prompt generated from the default template for a non-empty request
\* holds the request in place of the template's user-request placeholder.
C3_PromptHoldsRequest ==
  (/\ last.op = "analyzeAndGeneratePrompt"
   /\ ~last.threw
   /\ last.question # <<>>
   /\ last.templateType \in {None, Some("default")}) =>
    /\ \A i \in 1..Len(last.question) : last.question[i] \in Range(last.prompt[1])
    /\ Lit(UserRequestPlaceholder) \notin Range(last.prompt[1])

\* C4: when the project root is missing or is not a directory, analyzeCodebase
\* and every agent entry point that calls it fail, and no analysis record is
\* produced.
C4_InvalidRootFails ==
  (/\ last.op \in {"analyzeCodebase", "analyzeAndGeneratePrompt",
                   "generateSpecializedPrompt", "quickAnalysis"}
   /\ ~IsDirectory(last.path)) =>
    last.threw /\ last.analysis = None

-----------------------------------------------------------------------------
(* Properties of the rendering, checked under Spec *)

\* the prompt of the last call
ThePrompt == last.prompt[1]

\* analyzeAndGeneratePrompt returned a prompt rendered from a default
\* template: templates/default.md when it is loaded, the built-in otherwise
RenderedDefault ==
  /\ last.op = "analyzeAndGeneratePrompt"
  /\ ~last.threw
  /\ last.path = Root
  /\ last.templateType \in {None, Some("default")}

\* the n tokens that follow the first occurrence of the label in text
FieldAfter(text, label, n) ==
  LET at == {i \in 1..Len(text) : text[i] = Lit(label)}
  IN IF at = {} THEN <<>>
     ELSE LET i == CHOOSE k \in at : \A j \in at : k <= j
          IN SubSeq(text, i + 1, i + n)

\* the labels of the importance-role lines of the default template, with
\* the role each line shows
DefaultRoleLines ==
  << <<"**Entry Points**: ", "entryPoints">>, <<"**Components**: ", "components">>,
     <<"**Pages**: ", "pages">>, <<"**API Files**: ", "api">>,
     <<"**Config Files**: ", "config">> >>

\* C11: the default template rendered for the analysis of an empty directory
\* shows "Unknown" for framework and language and "None found" for every
\* importance role.
C11_EmptyProjectRendering ==
  (RenderedDefault /\ fs = EmptyFs /\ manifest.kind = "missing") =>
    /\ FieldAfter(ThePrompt, "- **Main Framework**: ", 1) = <<Lit("Unknown")>>
    /\ FieldAfter(ThePrompt, "- **Language**: ", 1) = <<Lit("Unknown")>>
    /\ \A i \in 1..Len(DefaultRoleLines) :
         FieldAfter(ThePrompt, DefaultRoleLines[i][1], 1) = <<Lit("None found")>>

\* the labels of the yes/no lines of the default template, with the truth
\* of the flag each line shows
FlagLines(analysis) ==
  << <<"- **TypeScript**: ", Truthy(analysis.technology.hasTypeScript)>>,
     <<"- **React**: ", Truthy(analysis.technology.hasReact)>>,
     <<"- **Vue**: ", Truthy(analysis.technology.hasVue)>>,
     <<"- **Angular**: ", Truthy(analysis.technology.hasAngular)>>,
     <<"- **Has src/ folder**: ", analysis.structure.hasSrcFolder>>,
     <<"- **Has public/ folder**: ", analysis.structure.hasPublicFolder>>,
     <<"- **Has components/ folder**: ", analysis.structure.hasComponentsFolder>>,
     <<"- **Has pages/ folder**: ", analysis.structure.hasPagesFolder>>,
     <<"- **Has api/ folder**: ", analysis.structure.hasApiFolder>> >>

\* C12: every ternary-shaped boolean placeholder of the default template is
\* rendered as "Yes" when the flag is truthy in the analysis and as "No"
\* otherwise.
C12_TernaryPlaceholdersRendered ==
  RenderedDefault =>
    \A i \in 1..Len(FlagLines(TheAnalysis)) :
      FieldAfter(ThePrompt, FlagLines(TheAnalysis)[i][1], 1)
        = YesNo(FlagLines(TheAnalysis)[i][2])

\* analyzeAndGeneratePrompt returned a prompt rendered from the loaded
\* template custom.md, which uses the plain placeholders
RenderedCustom ==
  /\ last.op = "analyzeAndGeneratePrompt"
  /\ ~last.threw
  /\ last.path = Root
  /\ last.templateType = Some("custom")
  /\ "custom" \in templates

\* the labels of the importance-role lines of custom.md
CustomRoleLines == << <<"Pages: ", "pages">>, <<"Entry: ", "entryPoints">> >>

\* the basenames of the files, comma-joined in list order, or "None found"
RoleText(files) ==
  IF files = <<>> THEN <<Lit("None found")>> ELSE Join(BaseNames(files))

\* the role lines show the role texts of the analysis
RoleLinesRendered(lines) ==
  \A i \in 1..Len(lines) :
    LET text == RoleText(TheAnalysis.importantFiles[lines[i][2]])
    IN FieldAfter(ThePrompt, lines[i][1], Len(text)) = text

\* C13: every importance-role placeholder, in the plain form and in the
\* join-with-fallback form, is rendered as the comma-joined basenames of the
\* role's files in list order, or as "None found" when the role is empty.
C13_RolePlaceholdersRendered ==
  /\ RenderedCustom => RoleLinesRendered(CustomRoleLines)
  /\ RenderedDefault => RoleLinesRendered(DefaultRoleLines)

\* the first ten names of the mapping, comma-joined in manifest order, or
\* "None"
DependencyText(map) ==
  LET names == [i \in 1..Len(map) |-> Lit(map[i].name)]
      first == SubSeq(names, 1, IF Len(names) < 10 THEN Len(names) ELSE 10)
  IN IF first = <<>> THEN <<Lit("None")>> ELSE Join(first)

\* C14: the two dependency-summary placeholders of the default template are
\* rendered as the first ten names of dependencies and of devDependencies,
\* comma-joined, or as "None" when the mapping is empty.
C14_DependencySummaryRendered ==
  RenderedDefault =>
    LET deps == DependencyText(TheAnalysis.dependencies.dependencies)
        devDeps == DependencyText(TheAnalysis.dependencies.devDependencies)
    IN /\ FieldAfter(ThePrompt, "**Main Dependencies**: ", Len(deps)) = deps
       /\ FieldAfter(ThePrompt, "**Dev Dependencies**: ", Len(devDeps)) = devDeps

\* C15: generatePrompt with a template identifier that names no loaded
\* template renders the built-in default template and does not throw.
C15_UnknownTemplateFallsBack ==
  (/\ last.op = "analyzeAndGeneratePrompt"
   /\ last.path = Root
   /\ last.templateType # None
   /\ last.templateType[1] \notin templates) =>
    /\ ~last.threw
    /\ last.prompt = Some(PopulateTemplate(GetDefaultTemplate, TheAnalysis,
                                           last.question))

\* the task types the claim C16 gives a guidance block
GuidedTaskTypes == {"feature", "bugfix", "optimization", "refactor",
                    "security", "testing"}

\* the prompt generatePrompt renders for the description of the last call
BasePrompt ==
  PopulateTemplate(SelectTemplate(templates, "default").text, TheAnalysis,
                   last.question)

\* C16: generateSpecializedPrompt returns the base prompt followed by a
\* non-empty guidance block for feature, bugfix, optimization, refactor,
\* security and testing, and exactly the base prompt for every other key.
C16_GuidanceBlockPerTaskType ==
  (last.op = "generateSpecializedPrompt" /\ last.path = Root /\ ~last.threw) =>
    IF last.taskType \in GuidedTaskTypes
    THEN /\ Len(ThePrompt) > Len(BasePrompt)
         /\ SubSeq(ThePrompt, 1, Len(BasePrompt)) = BasePrompt
    ELSE ThePrompt = BasePrompt

\* the template identifier generatePrompt receives in the last call
TheTemplateType ==
  IF last.templateType = None THEN "default" ELSE last.templateType[1]

\* C17: a placeholder of no shape populateTemplate substitutes stays in the
\* output as written, and rendering a template text with the record
\* analyzeCodebase built does not throw.
C17_UnmatchedPlaceholdersStay ==
  (/\ last.op = "analyzeAndGeneratePrompt"
   /\ ExistsSync(fs, last.path)
   /\ SelectTemplate(templates, TheTemplateType).isText) =>
    /\ ~last.threw
    /\ \A ph \in UnmatchedPlaceholders :
         CountIn(ThePrompt, Lit(ph))
           >= CountIn(SelectTemplate(templates, TheTemplateType).text, Lit(ph))
    /\ \A i \in 1..Len(RenderSteps(TheAnalysis, last.question)) :
         RenderSteps(TheAnalysis, last.question)[i].placeholder
           \notin UnmatchedPlaceholders

C17_Witness ==
  /\ last.op = "analyzeAndGeneratePrompt"
  /\ last.path = Root
  /\ last.templateType = Some("custom")
  /\ "custom" \in templates
  /\ ~last.threw
  /\ Lit("{{author}}") \in Range(ThePrompt)
  /\ Lit("{{projectName}}") \notin Range(ThePrompt)

-----------------------------------------------------------------------------
(* Properties of the command line, checked under Spec *)

\* C18: an option right after the project path is honoured without a
\* question before it: [path, '--quick'] runs quickAnalysis only, with no
\* prompt generated or saved, and [path, '--specialized', type, description]
\* runs generateSpecializedPrompt with that type and description.
C18_OptionsWithoutQuestion ==
  /\ last.args = Some(<<"proj", "--quick">>) =>
       /\ last.op = "quickAnalysis"
       /\ last.prompt = None
       /\ last.written = None
  /\ last.args = Some(<<"proj", "--specialized", "feature", "Add a contact form">>) =>
       /\ last.op = "generateSpecializedPrompt"
       /\ last.taskType = "feature"
       /\ last.question = <<Lit("Add a contact form")>>

-----------------------------------------------------------------------------
(* Properties of the structure summary and of the importance roles, checked
   under SpecAnalyzer *)

\* some walked file lies under the root's top-level directory dir, at any
\* depth
WalkedUnder(dir) ==
  \E f \in Range(FindAllFiles(fs, last.path)) :
    Below(PathJoin(last.path, N1(dir)), f)

\* C19: hasSrcFolder (hasPublicFolder) is true exactly when some walked file
\* lies under the root's top-level src (public) directory at any depth.
C19_TopLevelFolderFlags ==
  (Analyzed /\ last.path = Root) =>
    /\ TheAnalysis.structure.hasSrcFolder = WalkedUnder("src")
    /\ TheAnalysis.structure.hasPublicFolder = WalkedUnder("public")

\* the root-relative path has a directory segment with one of the names
HasDirSegment(rel, names) ==
  \E i \in 1..(Len(rel) - 1) : LowerName(rel[i]) \in {N1(n) : n \in names}

\* C20: the page and api-route roles of a file depend only on its
\* root-relative path: page exactly when the path has a directory segment
\* pages or views or the basename is page.(js|ts|jsx|tsx); api-route exactly
\* when it has a segment api or routes or the basename contains "route";
\* whatever the way the root path is written.
C20_RolesFromRelativePath ==
  Analyzed =>
    \A f \in Range(FindAllFiles(fs, last.path)) :
      LET rel == Relative(last.path, f)
          fileName == BaseName(f)
      IN /\ f \in Range(TheAnalysis.importantFiles.pages)
              <=> \/ HasDirSegment(rel, {"pages", "views"})
                  \/ (/\ Len(fileName) = 2 /\ fileName[1] = "page"
                      /\ fileName[2] \in {"js", "ts", "jsx", "tsx"})
         /\ f \in Range(TheAnalysis.importantFiles.api)
              <=> \/ HasDirSegment(rel, {"api", "routes"})
                  \/ NameIncludes(fileName, "route")

\* the buckets of the rules that come before the test rule in the chain
BucketsBeforeTests == {"javascript", "typescript", "react", "vue", "styles",
                       "html", "images", "config", "documentation"}

\* C21: a file whose basename holds the marker .test. or .spec. is in the
\* tests bucket only when its extension is .js; with another extension it is
\* not in tests, and it is in other when no earlier rule takes it.
C21_TestMarkerOnlyForJs ==
  Analyzed =>
    \A f \in Range(FindAllFiles(fs, last.path)) :
      (HasTestMarker(BaseName(f)) /\ ExtLower(f) # <<"js">>) =>
        /\ f \notin Range(TheAnalysis.fileTypes.tests)
        /\ (\A b \in BucketsBeforeTests : f \notin Range(TheAnalysis.fileTypes[b]))
             => f \in Range(TheAnalysis.fileTypes.other)

-----------------------------------------------------------------------------
(* Properties of the substitution order, checked under Spec *)

\* the template with every placeholder of the steps replaced at once by its
\* value, taken as written
Simultaneous(template, steps) ==
  Concat([i \in 1..Len(template) |->
            LET hits == {k \in 1..Len(steps) : template[i] = Lit(steps[k].placeholder)}
            IN IF hits = {} THEN <<template[i]>>
               ELSE steps[CHOOSE k \in hits : \A j \in hits : k <= j].value],
         1, Len(template))

\* C22: text inserted by one step of populateTemplate is never treated as a
\* placeholder by a later step: the output is the template with all its
\* placeholders substituted at once, also when a value holds {{...}} text or
\* $ replacement patterns.
C22_InsertedTextNotResubstituted ==
  (last.op = "analyzeAndGeneratePrompt" /\ ~last.threw) =>
    ThePrompt = Simultaneous(SelectTemplate(templates, TheTemplateType).text,
                             RenderSteps(TheAnalysis, last.question))

====
